---- MODULE Spec2Model ----
(***************************************************************************)
(* Model of archetect-core: the action engine (actions.rs), the source     *)
(* resolver and git cache (source.rs) and the directory renderer           *)
(* (core.rs).                                                              *)
(***************************************************************************)
EXTENDS Integers, Sequences, FiniteSets, TLC

\* ------------------------------------------------------------------------
\* Bounds of the model
\* ------------------------------------------------------------------------
MaxIter == 4
MaxN == 3
MaxLen == 2
NProcs == 2
MaxCalls == 2

\* ------------------------------------------------------------------------
\* Action engine: values
\* ------------------------------------------------------------------------
VARIABLES program, stack, envs, error, result, out, events

\* Source resolver: the engine's offline flag, CACHED_PATHS, the git cache
\* on disk (cloned directories, their remote-tracking branches and checked
\* out refspec), the branches of the remotes, the resolutions in progress,
\* the Sources returned so far, and the network commands run per URL.
VARIABLES offline, cached, cloned, refs, head, branches, th, returned, net, calls

\* Directory renderer: the render context and rules context handed to
\* render_directory, the render_directory calls in progress (innermost
\* last), the destination tree on disk, the RenderError that ended the
\* walk, and the history of the file entries processed so far.
VARIABLES context, rules_context, walk, files, render_error, processed

avars == <<program, stack, envs, error, result, out, events>>
svars == <<offline, cached, cloned, refs, head, branches, th, returned, net, calls>>
rvars == <<context, rules_context, walk, files, render_error, processed>>
vars == <<avars, svars, rvars>>

\* ActionId: one record shape for every variant; arg is the variable value
\* (set), the template (print) or the rule (rules); n is the N of the
\* condition loop.index >= N (if); body and els are the child lists.
Act(op, arg, n, body, els) ==
    [op |-> op, arg |-> arg, n |-> n, body |-> body, els |-> els]

Set(v) == Act("set", v, 0, <<>>, <<>>)
Rules(r) == Act("rules", r, 0, <<>>, <<>>)
PrintMsg(t) == Act("print", t, 0, <<>>, <<>>)
Break == Act("break", "", 0, <<>>, <<>>)
Actions(b) == Act("actions", "", 0, b, <<>>)
Scope(b) == Act("scope", "", 0, b, <<>>)
Loop(b) == Act("loop", "", 0, b, <<>>)
If(n, t, e) == Act("if", "", n, t, e)

\* Variant: both counters start at 0.
LoopContextNewZero == [index |-> 0, index0 |-> 0]

\* LoopContext { index, index0 }
LoopContextNew == [index |-> 1, index0 |-> 0]
\* Variant: only index0 advances.
LoopContextIncrementIndex0(lc) == [index |-> lc.index, index0 |-> lc.index0 + 1]

LoopContextIncrement(lc) == [index |-> lc.index + 1, index0 |-> lc.index0 + 1]
NoLoop == [index |-> 0, index0 |-> 0]

\* Render context: the variable x ("" when absent) and the loop variable.
EmptyContext == [x |-> "", loop |-> NoLoop]

\* Rules context: rule list, overwrite flag, break_triggered flag.
NewRulesContext == [rules |-> <<>>, overwrite |-> FALSE, break_triggered |-> FALSE]

SetBreakTriggered(rc, b) == [rc EXCEPT !.break_triggered = b]

\* RuleType::execute: a path rule is appended, "overwrite" sets the flag.
ApplyRule(rc, r) ==
    IF r = "overwrite" THEN [rc EXCEPT !.overwrite = TRUE]
    ELSE [rc EXCEPT !.rules = Append(@, r)]

\* set::populate_context: the variable is inserted into the render context.
PopulateContext(cx, v) == [cx EXCEPT !.x = v]

\* Renderable::render of a message: "" is the failure of the template
\* engine (a malformed template, or loop.index outside of any loop).
Render(t, cx) ==
    CASE t = "loop.index" -> IF cx.loop = NoLoop THEN "" ELSE ToString(cx.loop.index)
      [] t = "bad" -> ""
      [] OTHER -> t

\* The condition of an if action: loop.index >= n.
Condition(a, cx) == cx.loop.index >= a.n

\* ------------------------------------------------------------------------
\* Action engine: frames of ActionId::execute
\* ------------------------------------------------------------------------
\* A frame is one call of execute on a composite action.  env is the index
\* of the (rules context, render context) pair it executes against; a scope
\* or loop frame owns the pair it cloned.  In a loop frame i is history, the
\* number of iterations started.  saved, sb and ob are history:
\* the caller's pair at entry, whether a break ran inside a scope of this
\* loop, and whether a break ran on this loop's own rules context.
Frame(kind, acts, env, saved) ==
    [kind |-> kind, acts |-> acts, i |-> 0, env |-> env,
     lc |-> IF kind = "loop" THEN LoopContextNew ELSE NoLoop,
     saved |-> saved, sb |-> FALSE, ob |-> FALSE]

Top == stack[Len(stack)]
Front(s) == SubSeq(s, 1, Len(s) - 1)
Running == stack # <<>> /\ error = ""

BreakTriggered(f) == envs[f.env].rc.break_triggered

\* Variant: the list does not look at break_triggered.
ActionsIgnoresBreak(f) == f.i < Len(f.acts)

\* for action_id in action_ids { execute?; if break_triggered { break } }
ActionsContinues(f) ==
    f.i < Len(f.acts) /\ (f.i = 0 \/ ~BreakTriggered(f))

AtChild == Running /\ Top.kind = "actions" /\ ActionsContinues(Top)
Child == Top.acts[Top.i + 1]

Event(a) == [op |-> a.op, pos |-> Top.i + 1, depth |-> Len(stack),
             idx |-> envs[Top.env].cx.loop.index]

\* The statement after a returned call, in the frame that made the call.
Resume(f) ==
    CASE f.kind = "actions" -> [f EXCEPT !.i = @ + 1]
      [] f.kind = "scope" -> [f EXCEPT !.i = 1]
      [] f.kind = "loop" -> [f EXCEPT !.lc = LoopContextIncrement(@)]

Advance(s) == IF s = <<>> THEN s ELSE [s EXCEPT ![Len(s)] = Resume(@)]

Finish(s) == IF s = <<>> THEN "Ok" ELSE result

\* History: the loop frame a break inside scopes belongs to (0 if none),
\* looking down from the frame the break runs in.
RECURSIVE OwnerOf(_, _)
OwnerOf(s, k) ==
    IF k = 0 THEN 0
    ELSE IF s[k].kind \in {"scope", "loop"} THEN k
    ELSE OwnerOf(s, k - 1)

RECURSIVE LoopBelow(_, _)
LoopBelow(s, k) ==
    IF k = 0 THEN 0
    ELSE IF s[k].kind = "loop" THEN k
    ELSE LoopBelow(s, k - 1)

NoteBreak(s) ==
    LET o == OwnerOf(s, Len(s)) IN
    IF o = 0 THEN s
    ELSE IF s[o].kind = "loop" THEN [s EXCEPT ![o].ob = TRUE]
    ELSE LET l == LoopBelow(s, o) IN
         IF l = 0 THEN s ELSE [s EXCEPT ![l].sb = TRUE]

\* ------------------------------------------------------------------------
\* Action engine: the arms of ActionId::execute
\* ------------------------------------------------------------------------
ExecSet ==
    /\ AtChild /\ Child.op = "set"
    /\ envs' = [envs EXCEPT ![Top.env].cx = PopulateContext(@, Child.arg)]
    /\ stack' = Advance(stack)
    /\ events' = Append(events, Event(Child))
    /\ UNCHANGED <<program, error, result, out>>
    /\ UNCHANGED <<svars, rvars>>

ExecRules ==
    /\ AtChild /\ Child.op = "rules"
    /\ envs' = [envs EXCEPT ![Top.env].rc = ApplyRule(@, Child.arg)]
    /\ stack' = Advance(stack)
    /\ events' = Append(events, Event(Child))
    /\ UNCHANGED <<program, error, result, out>>
    /\ UNCHANGED <<svars, rvars>>

ExecPrint ==
    /\ AtChild /\ Child.op = "print"
    /\ events' = Append(events, Event(Child))
    /\ LET s == Render(Child.arg, envs[Top.env].cx) IN
       IF s = ""
       THEN /\ error' = "RenderError"
            /\ UNCHANGED <<stack, out>>
       ELSE /\ out' = Append(out, s)
            /\ stack' = Advance(stack)
            /\ UNCHANGED error
    /\ UNCHANGED <<program, envs, result>>
    /\ UNCHANGED <<svars, rvars>>

ExecBreak ==
    /\ AtChild /\ Child.op = "break"
    /\ envs' = [envs EXCEPT ![Top.env].rc = SetBreakTriggered(@, TRUE)]
    /\ stack' = Advance(NoteBreak(stack))
    /\ events' = Append(events, Event(Child))
    /\ UNCHANGED <<program, error, result, out>>
    /\ UNCHANGED <<svars, rvars>>

EnterActions ==
    /\ AtChild /\ Child.op = "actions"
    /\ stack' = Append(stack, Frame("actions", Child.body, Top.env, envs[Top.env]))
    /\ events' = Append(events, Event(Child))
    /\ UNCHANGED <<program, envs, error, result, out>>
    /\ UNCHANGED <<svars, rvars>>

EnterIf ==
    /\ AtChild /\ Child.op = "if"
    /\ LET branch == IF Condition(Child, envs[Top.env].cx) THEN Child.body ELSE Child.els
       IN stack' = Append(stack, Frame("actions", branch, Top.env, envs[Top.env]))
    /\ events' = Append(events, Event(Child))
    /\ UNCHANGED <<program, envs, error, result, out>>
    /\ UNCHANGED <<svars, rvars>>

EnterScope ==
    /\ AtChild /\ Child.op = "scope"
    /\ LET e == Len(envs) + 1 IN
       /\ envs' = Append(envs, envs[Top.env])
       /\ stack' = stack \o <<Frame("scope", Child.body, e, envs[Top.env]),
                              Frame("actions", Child.body, e, envs[Top.env])>>
    /\ events' = Append(events, Event(Child))
    /\ UNCHANGED <<program, error, result, out>>
    /\ UNCHANGED <<svars, rvars>>

EnterLoop ==
    /\ AtChild /\ Child.op = "loop"
    /\ LET e == Len(envs) + 1 IN
       /\ envs' = Append(envs, [envs[Top.env] EXCEPT !.rc = SetBreakTriggered(@, FALSE)])
       /\ stack' = Append(stack, Frame("loop", Child.body, e, envs[Top.env]))
    /\ events' = Append(events, Event(Child))
    /\ UNCHANGED <<program, error, result, out>>
    /\ UNCHANGED <<svars, rvars>>

\* Variant: every iteration starts from a fresh clone of the caller's
\* render context.
LoopIterateReclones ==
    /\ Running /\ Top.kind = "loop"
    /\ ~BreakTriggered(Top)
    /\ Top.lc.index <= MaxIter
    /\ envs' = [envs EXCEPT ![Top.env].cx = [Top.saved.cx EXCEPT !.loop = Top.lc]]
    /\ stack' = Append([stack EXCEPT ![Len(stack)].i = @ + 1],
                       Frame("actions", Top.acts, Top.env, envs[Top.env]))
    /\ UNCHANGED <<program, error, result, out, events>>
    /\ UNCHANGED <<svars, rvars>>

\* while !rules_context.break_triggered() { context.insert("loop", ..); execute }
LoopIterate ==
    /\ Running /\ Top.kind = "loop"
    /\ ~BreakTriggered(Top)
    /\ Top.lc.index <= MaxIter
    /\ envs' = [envs EXCEPT ![Top.env].cx.loop = Top.lc]
    /\ stack' = Append([stack EXCEPT ![Len(stack)].i = @ + 1],
                       Frame("actions", Top.acts, Top.env, envs[Top.env]))
    /\ UNCHANGED <<program, error, result, out, events>>
    /\ UNCHANGED <<svars, rvars>>

\* Variant: the loop leaves after its first iteration.
LoopExitAfterFirst ==
    /\ Running /\ Top.kind = "loop"
    /\ BreakTriggered(Top) \/ Top.lc.index > 1
    /\ stack' = Advance(Front(stack))
    /\ envs' = Front(envs)
    /\ result' = Finish(stack')
    /\ UNCHANGED <<program, error, out, events>>
    /\ UNCHANGED <<svars, rvars>>

\* Variant: a loop that ends sets break_triggered on its caller's rules
\* context.
LoopExitForwardsBreak ==
    /\ Running /\ Top.kind = "loop"
    /\ BreakTriggered(Top)
    /\ stack' = Advance(Front(stack))
    /\ envs' = [Front(envs) EXCEPT ![stack[Len(stack) - 1].env].rc =
                    SetBreakTriggered(@, TRUE)]
    /\ result' = Finish(stack')
    /\ UNCHANGED <<program, error, out, events>>
    /\ UNCHANGED <<svars, rvars>>

LoopExit ==
    /\ Running /\ Top.kind = "loop"
    /\ BreakTriggered(Top)
    /\ stack' = Advance(Front(stack))
    /\ envs' = Front(envs)
    /\ result' = Finish(stack')
    /\ UNCHANGED <<program, error, out, events>>
    /\ UNCHANGED <<svars, rvars>>

\* Variant: the scope hands break_triggered of its clone to the caller.
ScopeReturnForwardsBreak ==
    /\ Running /\ Top.kind = "scope" /\ Top.i = 1
    /\ stack' = Advance(Front(stack))
    /\ envs' = [Front(envs) EXCEPT ![stack[Len(stack) - 1].env].rc =
                    SetBreakTriggered(@, BreakTriggered(Top))]
    /\ result' = Finish(stack')
    /\ UNCHANGED <<program, error, out, events>>
    /\ UNCHANGED <<svars, rvars>>

ScopeReturn ==
    /\ Running /\ Top.kind = "scope" /\ Top.i = 1
    /\ stack' = Advance(Front(stack))
    /\ envs' = Front(envs)
    /\ result' = Finish(stack')
    /\ UNCHANGED <<program, error, out, events>>
    /\ UNCHANGED <<svars, rvars>>

\* Variant: a list that returns clears break_triggered.
ActionsReturnResetsBreak ==
    /\ Running /\ Top.kind = "actions" /\ ~ActionsContinues(Top)
    /\ stack' = Advance(Front(stack))
    /\ envs' = [envs EXCEPT ![Top.env].rc = SetBreakTriggered(@, FALSE)]
    /\ result' = Finish(stack')
    /\ UNCHANGED <<program, error, out, events>>
    /\ UNCHANGED <<svars, rvars>>

ActionsReturn ==
    /\ Running /\ Top.kind = "actions" /\ ~ActionsContinues(Top)
    /\ stack' = Advance(Front(stack))
    /\ result' = Finish(stack')
    /\ UNCHANGED <<program, envs, error, out, events>>
    /\ UNCHANGED <<svars, rvars>>

\* Variant: a loop swallows the error of its body and returns Ok.
UnwindStopsAtLoop ==
    /\ stack # <<>> /\ error # ""
    /\ stack' = IF Top.kind = "loop" THEN Advance(Front(stack)) ELSE Front(stack)
    /\ envs' = IF Top.kind \in {"scope", "loop"} THEN Front(envs) ELSE envs
    /\ error' = IF Top.kind = "loop" THEN "" ELSE error
    /\ result' = IF stack' = <<>> THEN (IF error' = "" THEN "Ok" ELSE error) ELSE result
    /\ UNCHANGED <<program, out, events>>
    /\ UNCHANGED <<svars, rvars>>

\* The ? operator: the error leaves the frame, which drops what it owns.
Unwind ==
    /\ stack # <<>> /\ error # ""
    /\ stack' = Front(stack)
    /\ envs' = IF Top.kind \in {"scope", "loop"} THEN Front(envs) ELSE envs
    /\ result' = IF stack' = <<>> THEN error ELSE result
    /\ UNCHANGED <<program, error, out, events>>
    /\ UNCHANGED <<svars, rvars>>

\* ------------------------------------------------------------------------
\* Action engine: programs and specification
\* ------------------------------------------------------------------------
Leaves == {Set("b"), Rules("skip"), Rules("overwrite"), Break,
           PrintMsg("lit"), PrintMsg("loop.index"), PrintMsg("bad")}

LeafLists == UNION {[1..n -> Leaves] : n \in 0..MaxLen}
Tail1 == {<<>>} \cup {<<a>> : a \in Leaves}

Wrap(b) == {Actions(b), Scope(b), Loop(b)}

\* loop [ if loop.index >= n then break else print "{{ loop.index }}" ]
LoopWithBreak(n) == <<Loop(<<If(n, <<Break>>, <<PrintMsg("loop.index")>>)>>)>>

Programs ==
    LeafLists
    \cup {<<w>> \o t : w \in UNION {Wrap(b) : b \in LeafLists}, t \in Tail1}
    \cup {<<Loop(<<w>> \o t)>> : w \in UNION {Wrap(b) : b \in LeafLists}, t \in Tail1}
    \cup {<<Loop(<<If(n, t, e)>>)>> : n \in 1..MaxN, t \in Tail1, e \in Tail1}

\* The caller's contexts when the root program is executed.
InitialEnvs ==
    {[rc |-> NewRulesContext, cx |-> EmptyContext],
     [rc |-> [NewRulesContext EXCEPT !.rules = <<"copy">>],
      cx |-> [EmptyContext EXCEPT !.x = "a"]]}

Init ==
    /\ program \in Programs
    /\ stack = <<Frame("actions", program, 1, [rc |-> NewRulesContext, cx |-> EmptyContext])>>
    /\ envs \in {<<e>> : e \in InitialEnvs}
    /\ error = ""
    /\ result = "running"
    /\ out = <<>>
    /\ events = <<>>
    /\ offline = FALSE /\ cached = {} /\ cloned = {} /\ refs = <<>> /\ head = <<>>
    /\ branches = {} /\ th = <<>> /\ returned = {} /\ net = <<>> /\ calls = 0
    /\ context = <<>> /\ rules_context = <<>> /\ walk = <<>> /\ files = <<>>
    /\ render_error = "" /\ processed = <<>>

Next ==
    \/ ExecSet
    \/ ExecRules
    \/ ExecPrint
    \/ ExecBreak
    \/ EnterActions
    \/ EnterIf
    \/ EnterScope
    \/ EnterLoop
    \/ LoopIterate
    \/ LoopExit
    \/ ScopeReturn
    \/ ActionsReturn
    \/ Unwind

Spec == Init /\ [][Next]_vars

\* ------------------------------------------------------------------------
\* Action engine: properties
\* ------------------------------------------------------------------------
IsPrefix(s, t) == Len(s) <= Len(t) /\ SubSeq(t, 1, Len(s)) = s

\* C1: while a scope action executes, and when it returns or fails, the
\* caller's render context and rules context (rules, overwrite,
\* break_triggered) are what they were when the scope was entered.
ScopeIsolation ==
    [][\A k \in 2..Len(stack) :
          stack[k].kind = "scope" => envs'[stack[k - 1].env] = stack[k].saved]_vars

\* A scope whose body set a variable, added a rule or broke has returned to
\* the root list.
ScopeIsolationWitness ==
    /\ Len(stack) = 1 /\ Top.i = 1 /\ error = ""
    /\ program[1].op = "scope"
    /\ \E j \in 1..Len(events) : events[j].op = "break" /\ events[j].depth = 3
    /\ \E j \in 1..Len(events) : events[j].op \in {"set", "rules"} /\ events[j].depth = 3
    /\ ~envs[1].rc.break_triggered

\* C2: after a break executed inside a scope inside a loop body, the loop
\* starts no further iteration.
BreakInScopeEndsLoop ==
    [][(Running /\ Top.kind = "loop" /\ Top.sb) => Len(stack') < Len(stack)]_vars

\* C3: a loop returns successfully only when a break executed on its own
\* rules context; otherwise it starts its next iteration.
LoopEndsOnlyByBreak ==
    [][(Running /\ Top.kind = "loop") =>
          IF BreakTriggered(Top)
          THEN Top.ob /\ Len(stack') = Len(stack) - 1 /\ error' = ""
          ELSE /\ Len(stack') = Len(stack) + 1
               /\ stack'[Len(stack')].kind = "actions"
               /\ stack'[Len(stack')].acts = Top.acts
               /\ stack'[Len(stack)].lc = Top.lc]_vars

\* A loop that went through two iterations without break and was then
\* broken in its third is about to return.
LoopEndsOnlyByBreakWitness ==
    /\ Running /\ Top.kind = "loop"
    /\ BreakTriggered(Top) /\ Top.ob
    /\ Top.lc.index >= 3

\* C4: loop [ if loop.index >= N then break else print loop.index ] prints
\* 1 .. N-1 in order, breaks once in iteration N, and terminates: its steps
\* stay within that finite list and it is never stuck before it returned.
LeafSteps ==
    LET leaf == SelectSeq(events, LAMBDA e : e.op \in {"print", "break"})
    IN [j \in 1..Len(leaf) |-> <<leaf[j].op, leaf[j].idx>>]

ExpectedSteps(n) ==
    [j \in 1..n |-> IF j < n THEN <<"print", j>> ELSE <<"break", n>>]

ExpectedOut(n) == [j \in 1..(n - 1) |-> ToString(j)]

LoopWithBreakRuns ==
    \A n \in 1..MaxN :
        program = LoopWithBreak(n) =>
            /\ IsPrefix(LeafSteps, ExpectedSteps(n))
            /\ IsPrefix(out, ExpectedOut(n))
            /\ error = ""
            /\ result = "Ok" => LeafSteps = ExpectedSteps(n) /\ out = ExpectedOut(n)
            /\ result # "Ok" => ENABLED Next

LoopWithBreakWitness ==
    /\ program = LoopWithBreak(3)
    /\ result = "Ok"
    /\ out = <<"1", "2">>

\* C5: an actions list starts its children in declaration order, starts
\* none after a child left break_triggered true on its rules context, and
\* waits for the running child to return.
ActionsStopOnBreak ==
    [][(Running /\ Top.kind = "actions") =>
          /\ (Top.i > 0 /\ BreakTriggered(Top)) =>
                 /\ stack' = Advance(Front(stack))
                 /\ events' = events /\ envs' = envs /\ out' = out
          /\ events' # events =>
                 /\ events'[Len(events')].op = Top.acts[Top.i + 1].op
                 /\ events'[Len(events')].pos = Top.i + 1
          /\ \A k \in 1..(Len(stack) - 1) :
                 stack[k].kind = "actions" =>
                     /\ k <= Len(stack')
                     /\ stack'[k].acts = stack[k].acts
                     /\ stack'[k].i = stack[k].i + (IF k = Len(stack') THEN 1 ELSE 0)]_vars

\* A list is about to return on break with children left to execute.
ActionsStopOnBreakWitness ==
    /\ Running /\ Top.kind = "actions"
    /\ Top.i > 0 /\ Top.i < Len(Top.acts)
    /\ BreakTriggered(Top)

\* C6: once an action failed, the error passes unchanged through every
\* enclosing frame to the result, nothing else executes, and what was
\* printed or inserted before is kept.
ErrorPropagation ==
    [][error # "" =>
          /\ error' = error
          /\ stack' = Front(stack)
          /\ events' = events /\ out' = out
          /\ \A k \in 1..Len(envs') : envs'[k] = envs[k]
          /\ envs'[1] = envs[1]
          /\ result' = (IF stack' = <<>> THEN error ELSE "running")]_vars

\* An action failed inside a nested frame after output was produced, and
\* the error reached the root.
ErrorPropagationWitness ==
    /\ result = "RenderError" /\ stack = <<>>
    /\ out # <<>>
    /\ events[Len(events)].depth >= 2

\* ------------------------------------------------------------------------
\* Source resolver: locations, filesystem, git
\* ------------------------------------------------------------------------
Procs == 1..NProcs

\* A location string, by its parts: scheme "ssh" is <user>@<host>:<path>,
\* "https" a URL with a host and .git in it, "http" a URL without .git,
\* "file" a file:// URL, "local" a path ("$" does not shell-expand);
\* ref is the part after '#', rel says whether a local path is relative.
Location(scheme, name, ref, rel) ==
    [scheme |-> scheme, name |-> name, ref |-> ref, rel |-> rel]

GitLocations ==
    {Location("ssh", "r1", r, FALSE) : r \in {"", "v1", "main", "zz"}}
    \cup {Location("https", "r2", r, FALSE) : r \in {"", "v1"}}

LocalLocations ==
    {Location("file", n, "", FALSE) : n \in {"d", "n"}}
    \cup {Location("http", "h", "", TRUE)}
    \cup {Location("local", n, "", FALSE) : n \in {"d", "f", "n", "b", "u"}}
    \cup {Location("local", n, "", TRUE) : n \in {"d", "f", "n", "$", "u"}}

\* path.split('#')[0]: the URL given to git and kept in CACHED_PATHS.
UrlOf(loc) == <<loc.scheme, loc.name>>
Urls == {UrlOf(l) : l \in GitLocations}

\* git_cache_dir.join(get_cache_key("<host>/<path>"))
GetCacheKey(loc) == loc.name
CachePath(loc) == <<"cache", GetCacheKey(loc)>>
GitPaths == {CachePath(l) : l \in GitLocations}

\* Branches the remotes can have, and the refs that are not branches (tags).
BranchSets == {{}, {"master"}, {"main", "master"}, {"develop", "main"}}
Tags == {"v1"}

\* The remote-tracking branches of a clone made before develop was pushed.
StaleRefs(bs) == bs \ {"develop"}

\* The filesystem outside of the git cache: every directory holds a
\* directory d, a directory b whose requirements the engine does not meet,
\* a directory u whose requirements descriptor does not load, and a file f.
RECURSIVE KindOf(_, _)
KindOf(cl, p) ==
    IF Len(p) = 0 THEN "dir"
    ELSE IF Len(p) = 2 /\ p[1] = "cache" THEN (IF p \in cl THEN "dir" ELSE "none")
    ELSE IF KindOf(cl, Front(p)) # "dir" THEN "none"
    ELSE CASE p[Len(p)] \in {"d", "b", "u"} -> "dir"
           [] p[Len(p)] = "f" -> "file"
           [] OTHER -> "none"

Exists(cl, p) == KindOf(cl, p) # "none"
IsDir(cl, p) == KindOf(cl, p) = "dir"

\* Requirements::load followed by verify: "" when it passes.
RequirementsOf(p) ==
    CASE p[Len(p)] = "b" -> "unsatisfied"
      [] p[Len(p)] = "u" -> "unloadable"
      [] OTHER -> ""

NoPath == <<>>
NoResult == [ok |-> FALSE, kind |-> "", src |-> Location("", "", "", FALSE),
             path |-> NoPath, gitref |-> "", arg |-> NoPath, verified |-> FALSE]

Ok(kind, loc, path, gitref) ==
    [ok |-> TRUE, kind |-> kind, src |-> loc, path |-> path, gitref |-> gitref,
     arg |-> NoPath, verified |-> FALSE]

\* History: verify_requirements ran for this result and passed.
Verified(r) == [r EXCEPT !.verified = TRUE]
Err(kind, arg) == [NoResult EXCEPT !.kind = kind, !.arg = arg]

Idle == [pc |-> "idle", loc |-> Location("", "", "", FALSE), url |-> NoPath,
         path |-> NoPath, gitref |-> "", eff |-> "", spec |-> NoPath,
         cmds |-> <<>>, missing |-> FALSE, touched |-> FALSE, res |-> NoResult]

\* The location string as given to detect.
SourceString(loc) ==
    IF loc.scheme = "local" THEN <<loc.name>> ELSE <<loc.scheme, loc.name, loc.ref>>

\* verify_requirements(archetect, source, path)
VerifyRequirements(loc, p) ==
    CASE RequirementsOf(p) = "unsatisfied" -> Err("RequirementsError", SourceString(loc))
      [] RequirementsOf(p) = "unloadable" -> Err("RequirementsError", p)
      [] OTHER -> NoResult

\* Variant: the URL is looked up but not recorded.
InsertNothing(set, url) == set

\* CACHED_PATHS.lock().unwrap().insert(url)
Insert(set, url) == set \cup {url}

\* find_default_branch
Candidates == <<"develop", "main", "master">>
RECURSIVE FindDefaultBranch(_, _)
\* Variant: the candidates are tried from the last to the first.
FindDefaultBranchReversed(rs, k) ==
    IF k > Len(Candidates) THEN ""
    ELSE IF Candidates[Len(Candidates) + 1 - k] \in rs THEN Candidates[Len(Candidates) + 1 - k]
    ELSE FindDefaultBranch(rs, k + 1)

FindDefaultBranch(rs, k) ==
    IF k > Len(Candidates) THEN ""
    ELSE IF Candidates[k] \in rs THEN Candidates[k]
    ELSE FindDefaultBranch(rs, k + 1)

\* The show-ref probes find_default_branch runs before it returns.
RECURSIVE Probes(_, _)
Probes(rs, k) ==
    IF k > Len(Candidates) THEN <<>>
    ELSE IF Candidates[k] \in rs THEN <<"show-ref">>
    ELSE <<"show-ref">> \o Probes(rs, k + 1)

\* is_branch: show-ref --verify refs/remotes/origin/<gitref>
IsBranch(rs, gitref) == gitref \in rs

\* What git checkout accepts in a clone with remote-tracking branches rs.
Resolvable(rs, spec) ==
    \/ Len(spec) = 2 /\ spec[1] = "origin" /\ spec[2] \in rs
    \/ Len(spec) = 1 /\ spec[1] \in Tags

\* The call of detect by t returns r, after running the git commands c.
Return(t, r, c) ==
    th' = [th EXCEPT ![t] = [@ EXCEPT !.pc = "idle", !.res = r, !.cmds = @ \o c]]

SourceOf(r) == [kind |-> r.kind, src |-> r.src, path |-> r.path, gitref |-> r.gitref]
NoSource == [kind |-> "", src |-> Location("", "", "", FALSE), path |-> NoPath, gitref |-> ""]

\* ------------------------------------------------------------------------
\* Source resolver: Source::detect and cache_git_repo
\* ------------------------------------------------------------------------
\* detect, first two classes: the location is a git URL.  Callers are
\* numbered in the order of their first call.
DetectGit(t) ==
    /\ th[t].pc = "idle" /\ calls < MaxCalls
    /\ IF t = 1 THEN TRUE ELSE th[t - 1] # Idle
    /\ \E loc \in GitLocations :
          th' = [th EXCEPT ![t] = [Idle EXCEPT !.pc = "exists", !.loc = loc,
                                     !.url = UrlOf(loc), !.path = CachePath(loc),
                                     !.gitref = loc.ref]]
    /\ calls' = calls + 1
    /\ UNCHANGED <<offline, cached, cloned, refs, head, branches, returned, net>>
    /\ UNCHANGED <<avars, rvars>>

\* if !cache_destination.exists()
CheckDestination(t) ==
    /\ th[t].pc = "exists"
    /\ th' = [th EXCEPT ![t].pc = IF Exists(cloned, th[t].path) THEN "hit" ELSE "miss",
                        ![t].missing = ~Exists(cloned, th[t].path)]
    /\ UNCHANGED <<offline, cached, cloned, refs, head, branches, returned, net, calls>>
    /\ UNCHANGED <<avars, rvars>>

\* Variant: the offline flag is not consulted before cloning.
MissIgnoresOffline(t) ==
    /\ th[t].pc = "miss"
    /\ IF th[t].url \notin cached
       THEN /\ cached' = Insert(cached, th[t].url)
            /\ th' = [th EXCEPT ![t].pc = "clone"]
       ELSE /\ Return(t, Err("OfflineAndNotCached", th[t].url), <<>>)
            /\ UNCHANGED cached
    /\ UNCHANGED <<offline, cloned, refs, head, branches, returned, net, calls>>
    /\ UNCHANGED <<avars, rvars>>

\* if !offline && CACHED_PATHS.insert(url) { clone } else { Err(OfflineAndNotCached) }
Miss(t) ==
    /\ th[t].pc = "miss"
    /\ IF ~offline /\ th[t].url \notin cached
       THEN /\ cached' = Insert(cached, th[t].url)
            /\ th' = [th EXCEPT ![t].pc = "clone"]
       ELSE /\ th' = [th EXCEPT ![t] = [@ EXCEPT !.pc = "idle", !.touched = th[t].url \in cached,
                                          !.res = Err("OfflineAndNotCached", th[t].url)]]
            /\ UNCHANGED cached
    /\ UNCHANGED <<offline, cloned, refs, head, branches, returned, net, calls>>
    /\ UNCHANGED <<avars, rvars>>

\* Variant: an existing destination is fetched on every online call.
HitAlwaysFetches(t) ==
    /\ th[t].pc = "hit"
    /\ IF ~offline
       THEN /\ cached' = Insert(cached, th[t].url)
            /\ th' = [th EXCEPT ![t].pc = "fetch", ![t].touched = th[t].url \in cached]
       ELSE /\ th' = [th EXCEPT ![t].pc = "ref", ![t].touched = th[t].url \in cached]
            /\ UNCHANGED cached
    /\ UNCHANGED <<offline, cloned, refs, head, branches, returned, net, calls>>
    /\ UNCHANGED <<avars, rvars>>

\* if !offline && CACHED_PATHS.insert(url) { fetch }
Hit(t) ==
    /\ th[t].pc = "hit"
    /\ IF ~offline /\ th[t].url \notin cached
       THEN /\ cached' = Insert(cached, th[t].url)
            /\ th' = [th EXCEPT ![t].pc = "fetch"]
       ELSE /\ th' = [th EXCEPT ![t].pc = "ref", ![t].touched = th[t].url \in cached]
            /\ UNCHANGED cached
    /\ UNCHANGED <<offline, cloned, refs, head, branches, returned, net, calls>>
    /\ UNCHANGED <<avars, rvars>>

\* handle_git(git clone url dest)?
Clone(t) ==
    /\ th[t].pc = "clone"
    /\ net' = [net EXCEPT ![th[t].url] = @ + 1]
    /\ \E success \in BOOLEAN :
          IF success /\ ~Exists(cloned, th[t].path)
          THEN /\ cloned' = cloned \cup {th[t].path}
               /\ refs' = [refs EXCEPT ![th[t].path] = branches]
               /\ head' = [head EXCEPT ![th[t].path] = <<"HEAD">>]
               /\ th' = [th EXCEPT ![t].pc = "ref", ![t].cmds = Append(@, "clone")]
          ELSE /\ Return(t, Err("RemoteSourceError", th[t].url), <<"clone">>)
               /\ UNCHANGED <<cloned, refs, head>>
    /\ UNCHANGED <<offline, cached, branches, returned, calls>>
    /\ UNCHANGED <<avars, rvars>>

\* handle_git(git fetch)?
Fetch(t) ==
    /\ th[t].pc = "fetch"
    /\ net' = [net EXCEPT ![th[t].url] = @ + 1]
    /\ \E success \in BOOLEAN :
          IF success
          THEN /\ refs' = [refs EXCEPT ![th[t].path] = branches]
               /\ th' = [th EXCEPT ![t].pc = "ref", ![t].cmds = Append(@, "fetch")]
          ELSE /\ Return(t, Err("RemoteSourceError", th[t].url), <<"fetch">>)
               /\ UNCHANGED refs
    /\ UNCHANGED <<offline, cached, cloned, head, branches, returned, calls>>
    /\ UNCHANGED <<avars, rvars>>

\* let gitref = if let Some(gitref) = gitref { .. } else { find_default_branch()? }
FindRef(t) ==
    /\ th[t].pc = "ref"
    /\ IF th[t].gitref # ""
       THEN th' = [th EXCEPT ![t].pc = "spec", ![t].eff = th[t].gitref]
       ELSE LET b == FindDefaultBranch(refs[th[t].path], 1) IN
            IF b # ""
            THEN th' = [th EXCEPT ![t].pc = "spec", ![t].eff = b,
                                  ![t].cmds = @ \o Probes(refs[th[t].path], 1)]
            ELSE Return(t, Err("NoDefaultBranch", NoPath), Probes(refs[th[t].path], 1))
    /\ UNCHANGED <<offline, cached, cloned, refs, head, branches, returned, net, calls>>
    /\ UNCHANGED <<avars, rvars>>

\* Variant: the ref is always checked out literally.
RefSpecLiteral(t) ==
    /\ th[t].pc = "spec"
    /\ th' = [th EXCEPT ![t].pc = "checkout",
                        ![t].cmds = Append(@, "show-ref"),
                        ![t].spec = <<th[t].eff>>]
    /\ UNCHANGED <<offline, cached, cloned, refs, head, branches, returned, net, calls>>
    /\ UNCHANGED <<avars, rvars>>

\* let gitref_spec = if is_branch(..) { "origin/<gitref>" } else { gitref }
RefSpec(t) ==
    /\ th[t].pc = "spec"
    /\ th' = [th EXCEPT ![t].pc = "checkout",
                        ![t].cmds = Append(@, "show-ref"),
                        ![t].spec = IF IsBranch(refs[th[t].path], th[t].eff)
                                    THEN <<"origin", th[t].eff>> ELSE <<th[t].eff>>]
    /\ UNCHANGED <<offline, cached, cloned, refs, head, branches, returned, net, calls>>
    /\ UNCHANGED <<avars, rvars>>

\* handle_git(git checkout gitref_spec)?
Checkout(t) ==
    /\ th[t].pc = "checkout"
    /\ IF Resolvable(refs[th[t].path], th[t].spec)
       THEN /\ head' = [head EXCEPT ![th[t].path] = th[t].spec]
            /\ th' = [th EXCEPT ![t].pc = "verify", ![t].cmds = Append(@, "checkout")]
       ELSE /\ Return(t, Err("RemoteSourceError", th[t].spec), <<"checkout">>)
            /\ UNCHANGED head
    /\ UNCHANGED <<offline, cached, cloned, refs, branches, returned, net, calls>>
    /\ UNCHANGED <<avars, rvars>>

\* verify_requirements(..)?; return Ok(Source::RemoteGit { url, path, gitref })
ReturnGit(t) ==
    /\ th[t].pc = "verify"
    /\ LET v == VerifyRequirements(th[t].loc, th[t].path)
           r == IF v.kind # "" THEN v
                ELSE Verified(Ok("RemoteGit", th[t].loc, th[t].path, th[t].gitref))
       IN /\ Return(t, r, <<>>)
          /\ returned' = IF r.ok THEN returned \cup {SourceOf(r)} ELSE returned
    /\ UNCHANGED <<offline, cached, cloned, refs, head, branches, net, calls>>
    /\ UNCHANGED <<avars, rvars>>

\* detect, third class: a file:// URL.
FileUrl(loc) ==
    LET p == <<loc.name>> IN
    IF Exists(cloned, p)
    THEN LET v == VerifyRequirements(loc, p) IN
         IF v.kind # "" THEN v ELSE Verified(Ok("LocalDirectory", loc, p, ""))
    ELSE Err("SourceNotFound", p)

\* Variant: an absolute or parentless path is not checked for existence.
LocalPathUnchecked(loc, parent) ==
    IF loc.name = "$" THEN Err("SourceInvalidPath", <<loc.name>>)
    ELSE IF loc.rel /\ parent # NoSource
    THEN LET p == parent.path \o <<loc.name>> IN
         IF Exists(cloned, p) /\ IsDir(cloned, p)
         THEN LET v == VerifyRequirements(loc, p) IN
              IF v.kind # "" THEN v ELSE Verified(Ok("LocalDirectory", loc, p, ""))
         ELSE Err("SourceNotFound", p)
    ELSE LET p == <<loc.name>> IN
         IF IsDir(cloned, p)
         THEN LET v == VerifyRequirements(loc, p) IN
              IF v.kind # "" THEN v ELSE Verified(Ok("LocalDirectory", loc, p, ""))
         ELSE Ok("LocalFile", loc, p, "")

\* detect, fourth class: a shell-expanded local path.
LocalPath(loc, parent) ==
    IF loc.name = "$" THEN Err("SourceInvalidPath", <<loc.name>>)
    ELSE IF loc.rel /\ parent # NoSource
    THEN LET p == parent.path \o <<loc.name>> IN
         IF Exists(cloned, p) /\ IsDir(cloned, p)
         THEN LET v == VerifyRequirements(loc, p) IN
              IF v.kind # "" THEN v ELSE Verified(Ok("LocalDirectory", loc, p, ""))
         ELSE Err("SourceNotFound", p)
    ELSE LET p == <<loc.name>> IN
         IF Exists(cloned, p)
         THEN IF IsDir(cloned, p)
              THEN LET v == VerifyRequirements(loc, p) IN
                   IF v.kind # "" THEN v ELSE Verified(Ok("LocalDirectory", loc, p, ""))
              ELSE Ok("LocalFile", loc, p, "")
         ELSE Err("SourceNotFound", p)

\* The filesystem path detect looks at for a local location.
LocalTarget(loc, parent) ==
    IF loc.scheme = "local" /\ loc.rel /\ parent # NoSource
    THEN parent.path \o <<loc.name>>
    ELSE <<loc.name>>

DetectLocal(t) ==
    /\ th[t].pc = "idle" /\ calls < MaxCalls
    /\ \E loc \in LocalLocations, parent \in {NoSource} \cup returned :
          LET r == IF loc.scheme = "file" THEN FileUrl(loc) ELSE LocalPath(loc, parent)
          IN /\ th' = [th EXCEPT ![t] = [Idle EXCEPT !.loc = loc, !.res = r,
                          !.path = LocalTarget(loc, parent),
                          !.missing = ~Exists(cloned, LocalTarget(loc, parent))]]
             /\ returned' = IF r.ok THEN returned \cup {SourceOf(r)} ELSE returned
    /\ calls' = calls + 1
    /\ UNCHANGED <<offline, cached, cloned, refs, head, branches, net>>
    /\ UNCHANGED <<avars, rvars>>

SourceInit ==
    /\ offline \in BOOLEAN
    /\ cached = {}
    /\ cloned \in SUBSET GitPaths
    /\ branches \in BranchSets
    /\ refs = [p \in GitPaths |-> IF p \in cloned THEN StaleRefs(branches) ELSE {}]
    /\ head = [p \in GitPaths |-> IF p \in cloned THEN <<"HEAD">> ELSE NoPath]
    /\ th = [t \in Procs |-> Idle]
    /\ returned = {}
    /\ net = [u \in Urls |-> 0]
    /\ calls = 0
    /\ program = <<>> /\ stack = <<>> /\ envs = <<>> /\ error = ""
    /\ result = "" /\ out = <<>> /\ events = <<>>
    /\ context = <<>> /\ rules_context = <<>> /\ walk = <<>> /\ files = <<>>
    /\ render_error = "" /\ processed = <<>>

\* The core is single-threaded: the resolutions of one caller, one after
\* the other.
SourceNext ==
    \E t \in {1} :
        \/ DetectGit(t)
        \/ CheckDestination(t)
        \/ Miss(t)
        \/ Hit(t)
        \/ Clone(t)
        \/ Fetch(t)
        \/ FindRef(t)
        \/ RefSpec(t)
        \/ Checkout(t)
        \/ ReturnGit(t)
        \/ DetectLocal(t)

SourceSpec == SourceInit /\ [][SourceNext]_vars

\* Resolutions of git locations by several callers at once, which
\* CACHED_PATHS is locked for.
ConcurrentNext ==
    \E t \in Procs :
        \/ DetectGit(t)
        \/ CheckDestination(t)
        \/ Miss(t)
        \/ Hit(t)
        \/ Clone(t)
        \/ Fetch(t)
        \/ FindRef(t)
        \/ RefSpec(t)
        \/ Checkout(t)
        \/ ReturnGit(t)

ConcurrentSpec == SourceInit /\ [][ConcurrentNext]_vars

\* ------------------------------------------------------------------------
\* Directory renderer: values
\* ------------------------------------------------------------------------
\* The archetype's contents directory: two files and a file with a
\* templated name at the top, a file whose contents do not render, and a
\* directory with one file.
Entries(dir) ==
    CASE dir = <<>> -> {"a", "{{x}}", "bad", "sub"}
      [] dir = <<"sub">> -> {"a"}
      [] OTHER -> {}

SourceIsDir(p) == p = <<"sub">>
SourceIsFile(p) == ~SourceIsDir(p)

\* tera.render_str on a file name: "" stands for a render error.
RenderPath(p, cx) ==
    IF p[Len(p)] = "{{x}}" THEN cx.x ELSE p[Len(p)]

\* render_destination: the parent destination joined with the rendered name.
RenderDestination(parent, child, cx) == Append(parent, RenderPath(child, cx))

\* What is on disk at a path of the destination tree.
Absent == <<>>
Directory == <<"dir">>
Old == <<"old">>

\* fs::read of a source file: its bytes.
FileContents(p) == <<"template">> \o p

\* render_contents: the bytes of the source file run through the template
\* engine with the context; RenderFailure when the template is invalid.
RenderFailure == <<"FileRenderError">>
RenderContents(p, cx) ==
    IF p[Len(p)] = "bad" THEN RenderFailure ELSE <<"text", cx.x>> \o p

\* write_contents: File::create followed by write.
WriteContents(fs, destination, contents) == [fs EXCEPT ![destination] = contents]

\* Variant: the copy goes through the template engine.
CopyContentsTemplated(fs, source, destination) ==
    [fs EXCEPT ![destination] = RenderContents(source, context)]

\* copy_contents: fs::copy.
CopyContents(fs, source, destination) == [fs EXCEPT ![destination] = FileContents(source)]

\* The rules a script may have installed: a pattern is * or a file name.
Rule(pattern, action) == [pattern |-> pattern, action |-> action]
RuleLists ==
    { <<>>,
      <<Rule("*", "COPY")>>,
      <<Rule("*", "COPY"), Rule("a", "SKIP")>>,
      <<Rule("a", "SKIP"), Rule("*", "COPY")>>,
      <<Rule("a", "COPY")>>,
      <<Rule("{{x}}", "COPY"), Rule("bad", "COPY")>>,
      <<Rule("{{x}}", "SKIP")>>,
      <<Rule("sub", "SKIP"), Rule("bad", "SKIP")>>,
      <<Rule("*", "SKIP")>> }

Matches(rule, p) == rule.pattern = "*" \/ rule.pattern = p[Len(p)]

\* RulesContext::get_source_action: RENDER unless a rule matches; the last
\* matching rule decides.
RECURSIVE GetSourceAction(_, _, _)
GetSourceAction(rules, p, k) ==
    IF k = 0 THEN "RENDER"
    ELSE IF Matches(rules[k], p) THEN rules[k].action
    ELSE GetSourceAction(rules, p, k - 1)

\* The paths of the destination tree.
DestinationPaths == {<<"a">>, <<"b">>, <<"bad">>, <<"sub">>, <<"sub", "a">>}

\* Destination trees before the walk: any of the files may already be
\* there.
InitialFiles ==
    { [p \in DestinationPaths |->
          IF p = <<"sub">> THEN (IF <<"sub">> \in ex \/ <<"sub", "a">> \in ex
                                THEN Directory ELSE Absent)
          ELSE IF p \in ex THEN Old ELSE Absent] : ex \in SUBSET DestinationPaths }

\* One call of render_directory: the source directory, the destination
\* directory and the entries read_dir has not yielded yet.
WalkFrame(source, destination) ==
    [source |-> source, destination |-> destination, todo |-> Entries(source)]

WalkTop == walk[Len(walk)]

\* The entry read_dir yields next: any of the remaining ones.
Yield(e) == walk' = [walk EXCEPT ![Len(walk)].todo = @ \ {e}]

\* History of one file entry: its source path, destination, disposition and
\* what was at the destination before it was processed.
Entry(p, destination, action) ==
    [source |-> p, destination |-> destination, action |-> action,
     before |-> files[destination]]

\* ------------------------------------------------------------------------
\* Directory renderer: render_directory
\* ------------------------------------------------------------------------
\* Variant: a directory whose disposition is SKIP is passed over.
WalkDirHonoursSkip ==
    /\ walk # <<>>
    /\ \E e \in WalkTop.todo :
          LET p == Append(WalkTop.source, e)
              destination == RenderDestination(WalkTop.destination, p, context)
              action == GetSourceAction(rules_context.rules, p, Len(rules_context.rules))
          IN /\ SourceIsDir(p)
             /\ IF action = "SKIP"
                THEN /\ Yield(e)
                     /\ UNCHANGED files
                ELSE /\ files' = [files EXCEPT ![destination] = Directory]
                     /\ walk' = Append([walk EXCEPT ![Len(walk)].todo = @ \ {e}],
                                       WalkFrame(p, destination))
    /\ UNCHANGED <<context, rules_context, render_error, processed>>
    /\ UNCHANGED <<avars, svars>>

\* if path.is_dir(): create_dir_all(destination) and recurse.
WalkDir ==
    /\ walk # <<>>
    /\ \E e \in WalkTop.todo :
          LET p == Append(WalkTop.source, e)
              destination == RenderDestination(WalkTop.destination, p, context)
          IN /\ SourceIsDir(p)
             /\ files' = [files EXCEPT ![destination] = Directory]
             /\ walk' = Append([walk EXCEPT ![Len(walk)].todo = @ \ {e}],
                               WalkFrame(p, destination))
    /\ UNCHANGED <<context, rules_context, render_error, processed>>
    /\ UNCHANGED <<avars, svars>>

\* Variant: a RENDER entry is written whatever is at the destination.
WalkRenderAlways ==
    /\ walk # <<>>
    /\ \E e \in WalkTop.todo :
          LET p == Append(WalkTop.source, e)
              destination == RenderDestination(WalkTop.destination, p, context)
              action == GetSourceAction(rules_context.rules, p, Len(rules_context.rules))
              contents == RenderContents(p, context)
          IN /\ SourceIsFile(p) /\ action = "RENDER"
             /\ processed' = Append(processed, Entry(p, destination, action))
             /\ IF contents = RenderFailure
                THEN /\ render_error' = "FileRenderError"
                     /\ walk' = <<>>
                     /\ UNCHANGED files
                ELSE /\ files' = WriteContents(files, destination, contents)
                     /\ Yield(e)
                     /\ UNCHANGED render_error
    /\ UNCHANGED <<context, rules_context>>
    /\ UNCHANGED <<avars, svars>>

\* Variant: the destination is created before the contents are rendered.
WalkRenderCreatesFirst ==
    /\ walk # <<>>
    /\ \E e \in WalkTop.todo :
          LET p == Append(WalkTop.source, e)
              destination == RenderDestination(WalkTop.destination, p, context)
              action == GetSourceAction(rules_context.rules, p, Len(rules_context.rules))
              contents == RenderContents(p, context)
          IN /\ SourceIsFile(p) /\ action = "RENDER"
             /\ processed' = Append(processed, Entry(p, destination, action))
             /\ IF files[destination] = Absent \/ rules_context.overwrite
                THEN IF contents = RenderFailure
                     THEN /\ render_error' = "FileRenderError"
                          /\ walk' = <<>>
                          /\ files' = WriteContents(files, destination, <<"empty">>)
                     ELSE /\ files' = WriteContents(files, destination, contents)
                          /\ Yield(e)
                          /\ UNCHANGED render_error
                ELSE /\ Yield(e)
                     /\ UNCHANGED <<files, render_error>>
    /\ UNCHANGED <<context, rules_context>>
    /\ UNCHANGED <<avars, svars>>

\* RuleAction::RENDER: render and write when the destination does not
\* exist or overwrite is set, preserve it otherwise; a render error ends
\* the walk.
WalkRender ==
    /\ walk # <<>>
    /\ \E e \in WalkTop.todo :
          LET p == Append(WalkTop.source, e)
              destination == RenderDestination(WalkTop.destination, p, context)
              action == GetSourceAction(rules_context.rules, p, Len(rules_context.rules))
              contents == RenderContents(p, context)
          IN /\ SourceIsFile(p) /\ action = "RENDER"
             /\ processed' = Append(processed, Entry(p, destination, action))
             /\ IF files[destination] = Absent \/ rules_context.overwrite
                THEN IF contents = RenderFailure
                     THEN /\ render_error' = "FileRenderError"
                          /\ walk' = <<>>
                          /\ UNCHANGED files
                     ELSE /\ files' = WriteContents(files, destination, contents)
                          /\ Yield(e)
                          /\ UNCHANGED render_error
                ELSE /\ Yield(e)
                     /\ UNCHANGED <<files, render_error>>
    /\ UNCHANGED <<context, rules_context>>
    /\ UNCHANGED <<avars, svars>>

\* Variant: COPY leaves an existing destination alone.
WalkCopyKeepsExisting ==
    /\ walk # <<>>
    /\ \E e \in WalkTop.todo :
          LET p == Append(WalkTop.source, e)
              destination == RenderDestination(WalkTop.destination, p, context)
              action == GetSourceAction(rules_context.rules, p, Len(rules_context.rules))
          IN /\ SourceIsFile(p) /\ action = "COPY"
             /\ processed' = Append(processed, Entry(p, destination, action))
             /\ files' = IF files[destination] = Absent
                         THEN CopyContents(files, p, destination) ELSE files
             /\ Yield(e)
    /\ UNCHANGED <<context, rules_context, render_error>>
    /\ UNCHANGED <<avars, svars>>

\* RuleAction::COPY: copy_contents(path, destination).
WalkCopy ==
    /\ walk # <<>>
    /\ \E e \in WalkTop.todo :
          LET p == Append(WalkTop.source, e)
              destination == RenderDestination(WalkTop.destination, p, context)
              action == GetSourceAction(rules_context.rules, p, Len(rules_context.rules))
          IN /\ SourceIsFile(p) /\ action = "COPY"
             /\ processed' = Append(processed, Entry(p, destination, action))
             /\ files' = CopyContents(files, p, destination)
             /\ Yield(e)
    /\ UNCHANGED <<context, rules_context, render_error>>
    /\ UNCHANGED <<avars, svars>>

\* Variant: SKIP leaves an empty file at the destination.
WalkSkipCreates ==
    /\ walk # <<>>
    /\ \E e \in WalkTop.todo :
          LET p == Append(WalkTop.source, e)
              destination == RenderDestination(WalkTop.destination, p, context)
              action == GetSourceAction(rules_context.rules, p, Len(rules_context.rules))
          IN /\ SourceIsFile(p) /\ action = "SKIP"
             /\ processed' = Append(processed, Entry(p, destination, action))
             /\ files' = WriteContents(files, destination, <<"empty">>)
             /\ Yield(e)
    /\ UNCHANGED <<context, rules_context, render_error>>
    /\ UNCHANGED <<avars, svars>>

\* RuleAction::SKIP: a trace line only.
WalkSkip ==
    /\ walk # <<>>
    /\ \E e \in WalkTop.todo :
          LET p == Append(WalkTop.source, e)
              destination == RenderDestination(WalkTop.destination, p, context)
              action == GetSourceAction(rules_context.rules, p, Len(rules_context.rules))
          IN /\ SourceIsFile(p) /\ action = "SKIP"
             /\ processed' = Append(processed, Entry(p, destination, action))
             /\ Yield(e)
    /\ UNCHANGED <<context, rules_context, files, render_error>>
    /\ UNCHANGED <<avars, svars>>

\* The for loop is over: Ok(()).
WalkReturn ==
    /\ walk # <<>>
    /\ WalkTop.todo = {}
    /\ walk' = Front(walk)
    /\ UNCHANGED <<context, rules_context, files, render_error, processed>>
    /\ UNCHANGED <<avars, svars>>

RenderInit ==
    /\ context \in {[x |-> v] : v \in {"a", "b"}}
    /\ rules_context \in {[rules |-> r, overwrite |-> o] : r \in RuleLists, o \in BOOLEAN}
    /\ walk = <<WalkFrame(<<>>, <<>>)>>
    /\ files \in InitialFiles
    /\ render_error = ""
    /\ processed = <<>>
    /\ program = <<>> /\ stack = <<>> /\ envs = <<>> /\ error = ""
    /\ result = "" /\ out = <<>> /\ events = <<>>
    /\ offline = FALSE /\ cached = {} /\ cloned = {} /\ refs = <<>> /\ head = <<>>
    /\ branches = {} /\ th = <<>> /\ returned = {} /\ net = <<>> /\ calls = 0

RenderNext ==
    \/ WalkDir
    \/ WalkRender
    \/ WalkCopy
    \/ WalkSkip
    \/ WalkReturn

RenderSpec == RenderInit /\ [][RenderNext]_vars

\* ------------------------------------------------------------------------
\* Source resolver: properties
\* ------------------------------------------------------------------------
\* C7: offline and the cache destination missing: the call fails with
\* OfflineAndNotCached carrying the URL, has run no git command, has not
\* put the URL into CACHED_PATHS and returns no Source.
OfflineMiss ==
    \A t \in Procs :
        (offline /\ th[t].pc = "idle" /\ th[t].loc \in GitLocations /\ th[t].missing) =>
            /\ th[t].res = Err("OfflineAndNotCached", UrlOf(th[t].loc))
            /\ th[t].cmds = <<>>
            /\ UrlOf(th[t].loc) \notin cached
            /\ net[UrlOf(th[t].loc)] = 0
            /\ \A s \in returned : s.src # th[t].loc

OfflineMissWitness ==
    /\ offline
    /\ \E t \in Procs :
          /\ th[t].pc = "idle" /\ th[t].missing
          /\ th[t].loc = Location("ssh", "r1", "", FALSE)
          /\ th[t].res.kind = "OfflineAndNotCached"

\* C8: at most one clone or fetch is ever run for a URL, whatever the
\* interleaving of the resolutions, and CACHED_PATHS only grows.
OneNetworkCommandPerUrl ==
    [][/\ \A u \in Urls : net'[u] <= 1
       /\ cached \subseteq cached']_vars

\* Two resolutions of one URL have both returned a Source.
OneNetworkCommandPerUrlWitness ==
    \E t1, t2 \in Procs :
        /\ t1 # t2
        /\ th[t1].pc = "idle" /\ th[t1].res.ok /\ th[t1].res.kind = "RemoteGit"
        /\ th[t2].pc = "idle" /\ th[t2].res.ok /\ th[t2].res.kind = "RemoteGit"
        /\ UrlOf(th[t1].loc) = UrlOf(th[t2].loc)
        /\ net[UrlOf(th[t1].loc)] = 1

\* C9: after a sequence of resolutions, the working tree of every RemoteGit
\* Source returned so far is checked out at that Source's ref, or at a
\* default branch when it has none.
CheckedOutAtRef ==
    \A s \in returned :
        s.kind = "RemoteGit" =>
            IF s.gitref # ""
            THEN head[s.path] \in {<<"origin", s.gitref>>, <<s.gitref>>}
            ELSE \E k \in 1..Len(Candidates) : head[s.path] = <<"origin", Candidates[k]>>

\* C10: the local path of every Source detect returned exists, and a call
\* whose path does not exist returned an error.
LocalPathExists ==
    /\ \A s \in returned : Exists(cloned, s.path)
    /\ \A t \in Procs :
          th[t].pc = "idle" /\ th[t].path # NoPath =>
              /\ th[t].res.ok => th[t].res.path = th[t].path /\ Exists(cloned, th[t].path)
              /\ ~Exists(cloned, th[t].path) => ~th[t].res.ok

\* A git Source was returned and a directory was then resolved relative to
\* it.
LocalPathExistsWitness ==
    /\ \E s \in returned : s.kind = "LocalDirectory" /\ Len(s.path) = 3
    /\ \E s \in returned : s.kind = "RemoteGit"

\* C11: every Source detect returned, of every variant, passed
\* verify_requirements at its local path before it was returned.
EverySourceVerified ==
    \A t \in Procs :
        (th[t].pc = "idle" /\ th[t].res.ok) => th[t].res.verified

\* A location was resolved relative to a parent Source.
WithParent(t) ==
    /\ th[t].pc = "idle" /\ th[t].loc.scheme = "local" /\ th[t].loc.rel
    /\ Len(th[t].path) > 1

\* C14: a relative local location with a parent Source is resolved against
\* the parent's local path: LocalDirectory when a directory is there,
\* LocalFile when a regular file is there, a failure otherwise.
RelativeToParent ==
    \A t \in Procs :
        WithParent(t) =>
            CASE KindOf(cloned, th[t].path) = "dir" ->
                    th[t].res.ok => th[t].res.kind = "LocalDirectory"
              [] KindOf(cloned, th[t].path) = "file" ->
                    th[t].res.ok /\ th[t].res.kind = "LocalFile"
              [] OTHER -> ~th[t].res.ok

\* C15: a location without a requirements descriptor passes the check, and
\* every RequirementsError, for an unsatisfied as for an unloadable
\* descriptor, carries the source string that was given to detect.
RequirementsOutcome ==
    \A t \in Procs :
        th[t].pc = "idle" =>
            /\ th[t].res.kind = "RequirementsError" =>
                   /\ RequirementsOf(th[t].path) # ""
                   /\ th[t].res.arg = SourceString(th[t].loc)
            /\ (th[t].res.verified /\ th[t].res.ok) => RequirementsOf(th[t].path) = ""

\* The call of t is past the clone-or-fetch decision of cache_git_repo.
Decided(t) ==
    /\ th[t].loc \in GitLocations
    /\ th[t].pc \in {"ref", "spec", "checkout", "verify", "idle"}

Ran(t, c) == \E i \in 1..Len(th[t].cmds) : th[t].cmds[i] = c

\* C16: git clone is run exactly when the destination was missing, the
\* engine is online and the URL was not yet in CACHED_PATHS; git fetch
\* exactly when the destination existed, online and the URL not yet
\* touched; otherwise no network command.  The network command is the
\* first command of the call, and a call that succeeds has run git checkout
\* as its last command.
NetworkStep ==
    \A t \in Procs :
        Decided(t) =>
            /\ Ran(t, "clone") <=> (th[t].missing /\ ~offline /\ ~th[t].touched)
            /\ Ran(t, "fetch") <=> (~th[t].missing /\ ~offline /\ ~th[t].touched)
            /\ \A i \in 2..Len(th[t].cmds) : th[t].cmds[i] \notin {"clone", "fetch"}
            /\ \A i \in 1..Len(th[t].cmds) :
                   th[t].cmds[i] = "checkout" => i = Len(th[t].cmds)
            /\ (th[t].pc \in {"verify", "idle"} /\ th[t].res.kind \notin
                    {"OfflineAndNotCached", "RemoteSourceError", "NoDefaultBranch"})
                   => Ran(t, "checkout")

\* A second resolution of a URL fetched before succeeds without a network
\* command.
NetworkStepWitness ==
    /\ Decided(1) /\ th[1].pc = "idle" /\ th[1].res.ok
    /\ th[1].touched /\ ~th[1].missing /\ ~offline
    /\ th[1].cmds[Len(th[1].cmds)] = "checkout"
    /\ net[th[1].url] = 1

\* find_default_branch as the ordered choice develop, main, master.
FirstCandidate(rs) ==
    IF "develop" \in rs THEN "develop"
    ELSE IF "main" \in rs THEN "main"
    ELSE IF "master" \in rs THEN "master"
    ELSE ""

\* C17: a caller-supplied ref is the effective ref as is; without one the
\* effective ref is develop if origin/develop exists, else main, else
\* master; when none exists the call fails with NoDefaultBranch and has
\* run no checkout.
EffectiveRef ==
    \A t \in Procs :
        th[t].loc \in GitLocations =>
            /\ (th[t].pc \in {"spec", "checkout", "verify"} \/ th[t].res.ok) =>
                   /\ th[t].eff # ""
                   /\ th[t].eff = IF th[t].gitref # "" THEN th[t].gitref
                                  ELSE FirstCandidate(refs[th[t].path])
            /\ th[t].res.kind = "NoDefaultBranch" =>
                   /\ th[t].gitref = "" /\ FirstCandidate(refs[th[t].path]) = ""
                   /\ ~Ran(t, "checkout")
            /\ (th[t].pc = "idle" /\ th[t].gitref = "" /\ Ran(t, "show-ref")
                    /\ FirstCandidate(refs[th[t].path]) = "")
                   => th[t].res.kind = "NoDefaultBranch"

\* main was chosen although master exists too.
EffectiveRefWitness ==
    /\ th[1].pc = "idle" /\ th[1].res.ok /\ th[1].loc \in GitLocations
    /\ th[1].gitref = "" /\ th[1].eff = "main"
    /\ "master" \in refs[th[1].path]

\* C18: git checkout is given origin/<ref> exactly when
\* refs/remotes/origin/<ref> exists in the cached repository and the ref
\* itself otherwise; a failed checkout ends the call with
\* RemoteSourceError, returns no Source and leaves the working tree alone.
CheckoutRefspec ==
    [][\A t \in Procs :
          th[t].pc = "checkout" =>
              /\ th[t].spec = IF th[t].eff \in refs[th[t].path]
                              THEN <<"origin", th[t].eff>> ELSE <<th[t].eff>>
              /\ th'[t].pc # "checkout" =>
                     IF Resolvable(refs[th[t].path], th[t].spec)
                     THEN /\ head'[th[t].path] = th[t].spec
                          /\ th'[t].pc = "verify"
                     ELSE /\ th'[t].pc = "idle"
                          /\ th'[t].res = Err("RemoteSourceError", th[t].spec)
                          /\ returned' = returned /\ head' = head]_vars

\* A ref that is no remote branch was checked out literally and git
\* rejected it.
CheckoutRefspecWitness ==
    /\ th[1].pc = "idle" /\ th[1].res.kind = "RemoteSourceError"
    /\ Ran(1, "checkout") /\ th[1].spec = <<th[1].gitref>>
    /\ \E s \in returned : s.kind = "RemoteGit"

\* ------------------------------------------------------------------------
\* Directory renderer: properties
\* ------------------------------------------------------------------------
\* The step processes a file entry; Current is that entry.
FileStep == Len(processed') = Len(processed) + 1
Current == processed'[Len(processed')]

\* C12: a RENDER entry whose destination exists leaves the destination
\* tree as it is when overwrite is false, and replaces the destination by
\* the rendered contents of the entry when overwrite is true.
FileCollision ==
    [][(FileStep /\ Current.action = "RENDER" /\ files[Current.destination] # Absent) =>
          IF ~rules_context.overwrite
          THEN files' = files /\ render_error' = ""
          ELSE RenderContents(Current.source, context) # RenderFailure =>
                  files'[Current.destination] = RenderContents(Current.source, context)]_vars

\* With overwrite false a RENDER entry found an old file and the walk ended
\* with the old file in place.
FileCollisionWitness ==
    /\ walk = <<>> /\ render_error = "" /\ ~rules_context.overwrite
    /\ \E i \in 1..Len(processed) :
          /\ processed[i].action = "RENDER" /\ processed[i].before = Old
          /\ files[processed[i].destination] = Old

\* What an entry writes when it writes.
Output(e) ==
    IF e.action = "COPY" THEN FileContents(e.source)
    ELSE RenderContents(e.source, context)

\* Two entries of one directory with the same destination, i before j.
Collide(i, j) ==
    /\ i < j /\ processed[i].destination = processed[j].destination
    /\ Front(processed[i].source) = Front(processed[j].source)

\* C13: when two entries of a directory render to the same destination,
\* after the walk the destination holds the output of the entry enumerated
\* last, whatever its disposition (RENDER or COPY) and the overwrite flag.
LastEnumeratedWins ==
    (walk = <<>> /\ render_error = "") =>
        \A i, j \in 1..Len(processed) :
            (Collide(i, j) /\ processed[j].action # "SKIP") =>
                files[processed[j].destination] = Output(processed[j])

\* The entry wrote its destination: COPY always, RENDER when nothing was
\* there or overwrite is set, SKIP never.
Writes(e) ==
    \/ e.action = "COPY"
    \/ e.action = "RENDER" /\ (e.before = Absent \/ rules_context.overwrite)

\* C13, amended: when two entries of a directory render to the same
\* destination, the destination holds the output of the last of the two
\* that wrote, where COPY always writes, RENDER writes only when the
\* destination is absent at that point or overwrite is set, and SKIP never
\* writes; when neither wrote, it is as it was before the first.
LastWriterWins ==
    render_error = "" =>
        \A i, j \in 1..Len(processed) :
            Collide(i, j) =>
                files[processed[j].destination] =
                    IF Writes(processed[j]) THEN Output(processed[j])
                    ELSE IF Writes(processed[i]) THEN Output(processed[i])
                    ELSE processed[i].before

\* The first of two colliding entries was copied, the second has RENDER,
\* overwrite is false, and the copy of the first is what the walk left.
LastWriterWinsWitness ==
    /\ walk = <<>> /\ render_error = "" /\ ~rules_context.overwrite
    /\ \E i, j \in 1..Len(processed) :
          /\ Collide(i, j)
          /\ processed[i].action = "COPY" /\ processed[j].action = "RENDER"
          /\ files[processed[j].destination] = FileContents(processed[i].source)

\* C19: a COPY entry leaves at its destination the bytes of the source
\* file, not its rendering, whatever was there and whatever overwrite is,
\* does not fail on an unrenderable file and touches nothing else.
CopyIsByteIdentical ==
    [][(FileStep /\ Current.action = "COPY") =>
          /\ files'[Current.destination] = FileContents(Current.source)
          /\ render_error' = ""
          /\ \A q \in DestinationPaths \ {Current.destination} : files'[q] = files[q]]_vars

\* A file whose contents do not render was copied over an old file with
\* overwrite false.
CopyIsByteIdenticalWitness ==
    /\ ~rules_context.overwrite /\ render_error = ""
    /\ \E i \in 1..Len(processed) :
          /\ processed[i].action = "COPY" /\ processed[i].before = Old
          /\ RenderContents(processed[i].source, context) = RenderFailure
          /\ files[processed[i].destination] = FileContents(processed[i].source)

\* C20: a SKIP entry changes nothing in the destination tree: its own
\* destination is neither created nor modified and no other path changes.
SkipHasNoEffect ==
    [][(FileStep /\ Current.action = "SKIP") =>
          /\ files' = files
          /\ render_error' = render_error]_vars

\* Rules * -> COPY then a -> SKIP: the walk is over, a was skipped and is
\* absent, another file was copied.
SkipHasNoEffectWitness ==
    /\ walk = <<>> /\ render_error = ""
    /\ \E i, j \in 1..Len(processed) :
          /\ processed[i].action = "SKIP" /\ processed[i].before = Absent
          /\ files[processed[i].destination] = Absent
          /\ processed[j].action = "COPY"
          /\ files[processed[j].destination] = FileContents(processed[j].source)

\* ------------------------------------------------------------------------
\* Action engine: loops and break
\* ------------------------------------------------------------------------
\* The step starts an iteration of the loop on top of the stack.
IterationStarts ==
    /\ Running /\ Top.kind = "loop" /\ Len(stack') = Len(stack) + 1

\* The step returns from the body to the loop below it: an iteration is
\* complete.
IterationCompletes ==
    /\ Running /\ Len(stack) > 1 /\ Top.kind = "actions"
    /\ stack[Len(stack) - 1].kind = "loop"
    /\ Len(stack') = Len(stack) - 1 /\ error' = ""

\* C21: the body of the k-th iteration of a loop starts with loop.index = k
\* and loop.index0 = k - 1 in its render context; index = index0 + 1 in
\* every loop context; a completed iteration advances both counters by
\* exactly one.
LoopVariable ==
    [][/\ \A k \in 1..Len(stack) :
             stack[k].kind = "loop" => stack[k].lc.index = stack[k].lc.index0 + 1
       /\ \A e \in 1..Len(envs) :
             envs[e].cx.loop = NoLoop \/ envs[e].cx.loop.index = envs[e].cx.loop.index0 + 1
       /\ IterationStarts =>
             LET k == stack'[Len(stack)].i IN
             /\ k = Top.i + 1
             /\ envs'[stack'[Len(stack')].env].cx.loop = [index |-> k, index0 |-> k - 1]
       /\ IterationCompletes =>
             LET lc == stack[Len(stack) - 1].lc IN
             stack'[Len(stack')].lc = [index |-> lc.index + 1, index0 |-> lc.index0 + 1]]_vars

\* The body of the third iteration of a loop is about to execute its first
\* action and sees index 3, index0 2.
LoopVariableWitness ==
    /\ Running /\ Len(stack) > 1 /\ Top.kind = "actions" /\ Top.i = 0
    /\ stack[Len(stack) - 1].kind = "loop" /\ stack[Len(stack) - 1].i = 3
    /\ envs[Top.env].cx.loop = [index |-> 3, index0 |-> 2]

\* The loop frame that encloses frame k (0 if none).
OuterLoop(k) == LoopBelow(stack, k - 1)

\* The step is a break whose rules context is that of a loop nested in
\* another loop.
InnerBreak ==
    /\ AtChild /\ Child.op = "break" /\ events' # events
    /\ OwnerOf(stack, Len(stack)) # 0
    /\ stack[OwnerOf(stack, Len(stack))].kind = "loop"
    /\ OuterLoop(OwnerOf(stack, Len(stack))) # 0

\* The step returns from a loop nested in another loop.
InnerLoopReturns ==
    /\ Running /\ Top.kind = "loop" /\ OuterLoop(Len(stack)) # 0
    /\ Len(stack') = Len(stack) - 1 /\ error' = ""

\* C22: a break in the body of an inner loop sets break_triggered on the
\* inner loop's rules context only; when the inner loop returns, the outer
\* loop's break_triggered is still false, the outer body goes on with its
\* next action, and when the outer body is done the outer loop's condition
\* still holds, so its next iteration starts.
NestedBreak ==
    [][/\ InnerBreak =>
             LET o == OwnerOf(stack, Len(stack)) IN
             /\ envs'[stack[o].env].rc.break_triggered
             /\ envs'[stack[OuterLoop(o)].env] = envs[stack[OuterLoop(o)].env]
             /\ ~envs'[stack[OuterLoop(o)].env].rc.break_triggered
       /\ InnerLoopReturns =>
             LET l == OuterLoop(Len(stack)) IN
             /\ Top.ob
             /\ Len(envs') = Len(envs) - 1
             /\ ~envs'[stack[l].env].rc.break_triggered
             /\ stack'[Len(stack')].i = stack[Len(stack) - 1].i + 1
             /\ stack'[Len(stack')].i < Len(stack'[Len(stack')].acts) => AtChild'
       /\ (IterationCompletes /\ ~BreakTriggered(Top)) =>
             /\ stack'[Len(stack')].kind = "loop"
             /\ ~envs'[stack'[Len(stack')].env].rc.break_triggered]_vars

\* The inner loop of the first outer iteration was ended by a break, the
\* action after it in the outer body ran, and the outer loop is in its
\* second iteration with break_triggered false.
NestedBreakWitness ==
    /\ Len(stack) >= 3 /\ stack[2].kind = "loop" /\ stack[2].i = 2
    /\ ~envs[stack[2].env].rc.break_triggered
    /\ \E m, n \in 1..Len(events) :
          /\ m < n
          /\ events[m].op = "break" /\ events[m].depth = 5
          /\ events[n].depth = 3 /\ events[n].pos = 2

\* The step leaves the loop on top of the stack, with Ok or with an error.
LoopReturns ==
    /\ stack # <<>> /\ Top.kind = "loop" /\ Len(stack') = Len(stack) - 1

\* C24: a loop clones the render and rules context once, at entry: the
\* start of an iteration changes nothing in the clone but the loop
\* variable and the end of an iteration changes nothing, so what one
\* iteration set is there in the next; the caller's contexts are not
\* touched while the loop runs and are those of loop entry when it returns.
LoopContextLifetime ==
    [][/\ IterationStarts =>
             /\ Len(envs') = Len(envs)
             /\ envs'[Top.env].rc = envs[Top.env].rc
             /\ envs'[Top.env].cx.x = envs[Top.env].cx.x
       /\ IterationCompletes => envs' = envs
       /\ \A k \in 2..Len(stack) :
             stack[k].kind = "loop" =>
                 /\ stack[k].env # stack[k - 1].env
                 /\ envs[stack[k - 1].env] = stack[k].saved
       /\ LoopReturns =>
             /\ Len(envs') = Len(envs) - 1
             /\ envs'[stack[Len(stack) - 1].env] = Top.saved]_vars

\* The second iteration of a loop starts with the variable its first
\* iteration set, which the caller's context does not have.
LoopContextLifetimeWitness ==
    /\ Running /\ Len(stack) = 3 /\ Top.kind = "actions" /\ Top.i = 0
    /\ stack[2].kind = "loop" /\ stack[2].i = 2
    /\ envs[stack[2].env].cx.x = "b" /\ envs[1].cx.x # "b"

\* The step is a break on the rules context of the root call: no scope and
\* no loop encloses it.
RootBreak ==
    /\ AtChild /\ Child.op = "break" /\ Top.env = 1 /\ events' # events

\* C25: a break outside any loop or scope sets break_triggered on the
\* caller's rules context, where it is never reset: from then on no action
\* executes, every step returns from a list, and the root call returns Ok
\* with break_triggered still true.
BreakAtRoot ==
    [][/\ RootBreak => envs'[1].rc.break_triggered
       /\ envs[1].rc.break_triggered =>
             /\ envs' = envs /\ events' = events /\ out' = out /\ error' = ""
             /\ \A k \in 1..Len(stack) : stack[k].kind = "actions" /\ stack[k].env = 1
             /\ Len(stack') = Len(stack) - 1
             /\ stack' = <<>> => result' = "Ok"]_vars

\* A break as the first action of a nested list: the rest of that list and
\* the rest of the root list never ran, and the root returned with
\* break_triggered true.
BreakAtRootWitness ==
    /\ result = "Ok" /\ envs[1].rc.break_triggered
    /\ Len(program) = 2 /\ program[1].op = "actions"
    /\ Len(program[1].body) = 2 /\ program[1].body[1].op = "break"
    /\ Len(events) = 2 /\ out = <<>>

\* ------------------------------------------------------------------------
\* Source resolver: offline errors
\* ------------------------------------------------------------------------
\* C23: a resolution fails with OfflineAndNotCached only when the engine
\* is offline, also when the destination is missing and the URL is already
\* in CACHED_PATHS.
OfflineErrorOnlyOffline ==
    \A t \in Procs :
        th[t].res.kind = "OfflineAndNotCached" => offline

\* ------------------------------------------------------------------------
\* Directory renderer: render errors and directories
\* ------------------------------------------------------------------------
\* C26: when the contents of a RENDER entry fail to render, the step
\* changes nothing in the destination tree (the entry's destination is not
\* created, an existing one keeps its contents, earlier output stays), the
\* walk ends with FileRenderError, and nothing is written afterwards.
FailedRenderWritesNothing ==
    [][/\ (FileStep /\ Current.action = "RENDER"
              /\ RenderContents(Current.source, context) = RenderFailure
              /\ (files[Current.destination] = Absent \/ rules_context.overwrite)) =>
             /\ files' = files
             /\ render_error' = "FileRenderError"
             /\ walk' = <<>>
       /\ render_error' # "" =>
             /\ files'[processed'[Len(processed')].destination]
                    = processed'[Len(processed')].before
             /\ \A i \in 1..Len(processed) :
                    files'[processed[i].destination] = files[processed[i].destination]
       /\ render_error # "" => files' = files /\ render_error' = render_error]_vars

\* overwrite is true, the unrenderable file met an old file at its
\* destination and left it, and an entry written before is still there.
FailedRenderWritesNothingWitness ==
    /\ render_error = "FileRenderError" /\ walk = <<>> /\ rules_context.overwrite
    /\ Len(processed) >= 2
    /\ processed[Len(processed)].before = Old
    /\ files[processed[Len(processed)].destination] = Old
    /\ \E i \in 1..(Len(processed) - 1) :
          /\ processed[i].before = Absent
          /\ files[processed[i].destination] = Output(processed[i])

\* The directories of the source tree.
SourceDirs == {<<"sub">>}

Disposition(p) == GetSourceAction(rules_context.rules, p, Len(rules_context.rules))

\* C27: whatever the disposition of a source directory, SKIP included, a
\* walk that ends without error has created it in the destination and has
\* processed every file below it, each under the disposition of its own
\* lookup: a file with RENDER below a SKIP directory is rendered.
DirectoriesAlwaysWalked ==
    /\ \A k \in 2..Len(walk) : files[walk[k].destination] = Directory
    /\ \A i \in 1..Len(processed) :
          /\ SourceIsFile(processed[i].source)
          /\ processed[i].action = Disposition(processed[i].source)
    /\ (walk = <<>> /\ render_error = "") =>
          \A d \in SourceDirs :
              /\ files[<<RenderPath(d, context)>>] = Directory
              /\ \A e \in Entries(d) :
                    \E i \in 1..Len(processed) :
                        /\ processed[i].source = Append(d, e)
                        /\ processed[i].destination =
                               RenderDestination(<<RenderPath(d, context)>>, Append(d, e), context)
                        /\ (processed[i].action = "RENDER" /\ processed[i].before = Absent) =>
                               files[processed[i].destination] =
                                   RenderContents(processed[i].source, context)
                        /\ (processed[i].action = "SKIP") =>
                               files[processed[i].destination] = processed[i].before

\* The directory has disposition SKIP, the walk is over, the directory is
\* there and the file in it, whose own disposition is RENDER, was rendered.
DirectoriesAlwaysWalkedWitness ==
    /\ walk = <<>> /\ render_error = ""
    /\ Disposition(<<"sub">>) = "SKIP"
    /\ files[<<"sub">>] = Directory
    /\ \E i \in 1..Len(processed) :
          /\ processed[i].source = <<"sub", "a">> /\ processed[i].action = "RENDER"
          /\ processed[i].before = Absent
          /\ files[<<"sub", "a">>] = RenderContents(<<"sub", "a">>, context)
====
